---- MODULE Spec2Model ----
(***************************************************************************)
(* Model of the edit-activity tracker (class ActivityTracker) of the       *)
(* workhoursrecord extension: the session state machine driven by          *)
(* document-change, editor-change and window-state events plus the         *)
(* heartbeat timer, and the per-day store kept in globalState.             *)
(*                                                                         *)
(* Time is Date.now() in milliseconds.  Every event handler runs to        *)
(* completion on the single extension-host thread, so one handler is one   *)
(* action.                                                                 *)
(***************************************************************************)
EXTENDS Integers, Sequences, FiniteSets, TLC

----------------------------------------------------------------------------
(* Program constants *)

IDLE_TIMEOUT_MS == 5 * 60 * 1000

MIN_SESSION_SECONDS == 10

MsPerSecond == 1000

MsPerDay == 24 * 60 * 60 * 1000

----------------------------------------------------------------------------
(* Bounds of the model *)

\* The environment opens a new session only while fewer than MaxSessions
\* sessions are stored.
MaxSessions == 2

\* The clock starts 130 s before a UTC midnight, so that sessions may fall on
\* either side of a day boundary or span it.
T0 == MsPerDay - 130000

\* Offsets from T0 of the instants at which something may happen.  They give
\* durations of exactly 10 s (0 to 10000) and of 9.999 s (420000 to 429999),
\* gaps of exactly 300 s (120000 to 420000), of less and of more, and the
\* instants 0 s, 120 s and 400 s.
Offsets == {0, 10000, 120000, 400000, 420000, 429999}

Instants == {T0 + o : o \in Offsets}

MaxInstant == T0 + 429999

\* A commit log has at most MaxCommits records.
MaxCommits == 3

\* An aggregate handed to getLanguagePercentages has at most MaxLanguages
\* languages.
MaxLanguages == 3

\* formatDuration is applied to every number of seconds up to MaxSeconds.
MaxSeconds == 3700

\* Documents of scheme 'file' that may be edited: two of the same language
\* and one of another.
Docs == { [languageId |-> "go",   fileName |-> "a.go"],
          [languageId |-> "go",   fileName |-> "b.go"],
          [languageId |-> "rust", fileName |-> "c.rs"] }

NoDoc == [languageId |-> "", fileName |-> ""]

----------------------------------------------------------------------------
VARIABLES
    now,               \* Date.now()
    lifecycle,         \* "constructed", "active" (initialize() ran), "disposed"
    heartbeatTimer,    \* TRUE when the setInterval timer is armed
    isTracking,
    currentLanguage,
    currentFileName,
    sessionStartTime,
    lastActivityTime,
    globalState,       \* context.globalState: dateKey -> DailyEditStats
    lastOp,            \* the last step: the handler that ran, with its input
    fired,             \* stats passed to _onStatsUpdated.fire by the last step
    closed,            \* sessions ended by the last step (saved or discarded)
    returned,          \* the value returned by the last step, if any
    alias,             \* what the returned value shares with the store
    reads,             \* history: getDailyStats results since the last write
    run,               \* history: the run of same-document pings since Idle
    prevPing,          \* history: the latest ping and the session ends since it
    gapObs,            \* history: set by a ping that follows an idle gap
    quiet,             \* environment: the user walked away (no more events)
    left,              \* history: the session open when the user walked away
    gitLog,            \* commit-log mode: the records returned by git.log()
    gitTz,             \* commit-log mode: the offset of local time from UTC
    gitOut,            \* commit-log mode: the WorkRecords of the last query
    storeFails,        \* environment: the store throws when it is accessed
    threw,             \* the last step ended with an exception
    arg,               \* the argument of a formatting or share computation
    result             \* its result, once computed

tracker == <<isTracking, currentLanguage, currentFileName,
             sessionStartTime, lastActivityTime>>

history == <<run, prevPing, gapObs>>

git == <<gitLog, gitTz, gitOut>>

\* The variables of the edit-activity tracker and of its observation.
edit == <<now, lifecycle, heartbeatTimer, tracker, globalState,
          fired, closed, lastOp, returned, alias, reads, history, quiet, left,
          storeFails, threw>>

pure == <<arg, result>>

vars == <<edit, git, pure>>

----------------------------------------------------------------------------
(* Helpers on numbers, sequences and maps *)

RECURSIVE SumSeq(_)
SumSeq(s) == IF s = <<>> THEN 0 ELSE Head(s) + SumSeq(Tail(s))

RECURSIVE SumMap(_)
SumMap(f) ==
    IF DOMAIN f = {} THEN 0
    ELSE LET k == CHOOSE x \in DOMAIN f : TRUE
         IN  f[k] + SumMap([x \in DOMAIN f \ {k} |-> f[x]])

Durations(sessions) == [i \in 1..Len(sessions) |-> sessions[i].durationSeconds]

\* obj[key] = value on a JavaScript object used as a map
Put(f, k, v) == [x \in DOMAIN f \cup {k} |-> IF x = k THEN v ELSE f[x]]

\* globalState.update(key, undefined)
Remove(f, k) == [x \in DOMAIN f \ {k} |-> f[x]]

----------------------------------------------------------------------------
(* The tracker's methods, as functions of a state record                   *)
(*   s = [isTracking, currentLanguage, currentFileName, sessionStartTime,  *)
(*        lastActivityTime, globalState, fired, closed, returned, alias,   *)
(*        storeFails, thrown]                                              *)
(* thrown tells that an exception is propagating: what follows the call    *)
(* that threw is not executed.                                             *)

NoValue == [void |-> TRUE]

\* The returned value shares no object with the store.
NoAlias == [depth |-> "none"]

Cur == [isTracking       |-> isTracking,
        currentLanguage  |-> currentLanguage,
        currentFileName  |-> currentFileName,
        sessionStartTime |-> sessionStartTime,
        lastActivityTime |-> lastActivityTime,
        globalState      |-> globalState,
        fired            |-> <<>>,
        closed           |-> <<>>,
        returned         |-> NoValue,
        alias            |-> NoAlias,
        storeFails       |-> storeFails,
        thrown           |-> FALSE]

\* date.toISOString().split('T')[0]: the UTC calendar day of the timestamp,
\* as the number of days since the epoch.
getDateKey(timestamp) == timestamp \div MsPerDay

EmptyStats(dateKey) ==
    [date |-> dateKey, totalSeconds |-> 0,
     languageStats |-> << >>, sessions |-> << >>]

\* Mutant: the stored aggregate is not read back.
getDailyStats_fresh(gs, dateKey) == EmptyStats(dateKey)

getDailyStats(gs, dateKey) ==
    IF dateKey \in DOMAIN gs THEN gs[dateKey] ELSE EmptyStats(dateKey)

saveDailyStats(gs, dateKey, stats) == Put(gs, dateKey, stats)

\* Mutant: the per-language seconds are not updated.
saveSession_noLanguage(s, session) ==
    LET dateKey == getDateKey(session.startTime)
        stats   == getDailyStats(s.globalState, dateKey)
        updated == [date          |-> stats.date,
                    totalSeconds  |-> stats.totalSeconds + session.durationSeconds,
                    languageStats |-> stats.languageStats,
                    sessions      |-> Append(stats.sessions, session)]
    IN  [s EXCEPT !.globalState = saveDailyStats(@, dateKey, updated),
                  !.fired       = Append(@, updated)]

\* Mutant: the session is filed under the day on which it ended.
saveSession_endDay(s, session) ==
    LET dateKey == getDateKey(session.endTime)
        stats   == getDailyStats(s.globalState, dateKey)
        lang    == session.languageId
        before  == IF lang \in DOMAIN stats.languageStats
                   THEN stats.languageStats[lang] ELSE 0
        updated == [date          |-> stats.date,
                    totalSeconds  |-> stats.totalSeconds + session.durationSeconds,
                    languageStats |-> Put(stats.languageStats, lang,
                                          before + session.durationSeconds),
                    sessions      |-> Append(stats.sessions, session)]
    IN  [s EXCEPT !.globalState = saveDailyStats(@, dateKey, updated),
                  !.fired       = Append(@, updated)]

\* Mutant: the listeners are handed the aggregate as it was read, before the
\* session was added.
saveSession_firesStale(s, session) ==
    LET dateKey == getDateKey(session.startTime)
        stats   == getDailyStats(s.globalState, dateKey)
        lang    == session.languageId
        before  == IF lang \in DOMAIN stats.languageStats
                   THEN stats.languageStats[lang] ELSE 0
        updated == [date          |-> stats.date,
                    totalSeconds  |-> stats.totalSeconds + session.durationSeconds,
                    languageStats |-> Put(stats.languageStats, lang,
                                          before + session.durationSeconds),
                    sessions      |-> Append(stats.sessions, session)]
    IN  [s EXCEPT !.globalState = saveDailyStats(@, dateKey, updated),
                  !.fired       = Append(@, stats)]

\* Mutant: the session is put before the sessions of its day.
saveSession_prepends(s, session) ==
    LET dateKey == getDateKey(session.startTime)
        stats   == getDailyStats(s.globalState, dateKey)
        lang    == session.languageId
        before  == IF lang \in DOMAIN stats.languageStats
                   THEN stats.languageStats[lang] ELSE 0
        updated == [date          |-> stats.date,
                    totalSeconds  |-> stats.totalSeconds + session.durationSeconds,
                    languageStats |-> Put(stats.languageStats, lang,
                                          before + session.durationSeconds),
                    sessions      |-> <<session>> \o stats.sessions]
    IN  [s EXCEPT !.globalState = saveDailyStats(@, dateKey, updated),
                  !.fired       = Append(@, updated)]

\* When the store throws, it does so at the read that opens saveSession:
\* nothing is written and the exception leaves saveSession.
saveSession(s, session) ==
    LET dateKey == getDateKey(session.startTime)
        stats   == getDailyStats(s.globalState, dateKey)
        lang    == session.languageId
        before  == IF lang \in DOMAIN stats.languageStats
                   THEN stats.languageStats[lang] ELSE 0
        updated == [date          |-> stats.date,
                    totalSeconds  |-> stats.totalSeconds + session.durationSeconds,
                    languageStats |-> Put(stats.languageStats, lang,
                                          before + session.durationSeconds),
                    sessions      |-> Append(stats.sessions, session)]
    IN  IF s.storeFails
        THEN [s EXCEPT !.thrown = TRUE]
        ELSE [s EXCEPT !.globalState = saveDailyStats(@, dateKey, updated),
                       !.fired       = Append(@, updated)]

startSession(s, doc, t) ==
    [s EXCEPT !.isTracking       = TRUE,
              !.currentLanguage  = doc.languageId,
              !.currentFileName  = doc.fileName,
              !.sessionStartTime = t,
              !.lastActivityTime = t]

\* The body of endCurrentSession, with the end time and the least duration
\* that is kept as parameters.
EndWith(s, endTime, minSeconds) ==
    LET durationSeconds == (endTime - s.sessionStartTime) \div MsPerSecond
        session == [startTime       |-> s.sessionStartTime,
                    endTime         |-> endTime,
                    languageId      |-> s.currentLanguage,
                    fileName        |-> s.currentFileName,
                    durationSeconds |-> durationSeconds]
        keep    == durationSeconds >= minSeconds
        s1      == IF keep THEN saveSession(s, session) ELSE s
    IN  IF s1.thrown THEN s1
        ELSE [s1 EXCEPT !.isTracking       = FALSE,
                        !.currentLanguage  = "",
                        !.currentFileName  = "",
                        !.sessionStartTime = 0,
                        !.closed = Append(@, [session |-> session, saved |-> keep])]

\* Mutant: the session ends at the time of the close, not at the last
\* activity.
endCurrentSession_endsNow(s) ==
    IF ~s.isTracking THEN s
    ELSE EndWith(s, now, MIN_SESSION_SECONDS)

\* Mutant: a session of exactly MIN_SESSION_SECONDS is discarded.
endCurrentSession_strictMin(s) ==
    IF ~s.isTracking THEN s
    ELSE EndWith(s, s.lastActivityTime, MIN_SESSION_SECONDS + 1)

\* Mutant: the close records the session and leaves it open.
endCurrentSession_staysOpen(s) ==
    IF ~s.isTracking THEN s
    ELSE [EndWith(s, s.lastActivityTime, MIN_SESSION_SECONDS)
             EXCEPT !.isTracking       = TRUE,
                    !.currentLanguage  = s.currentLanguage,
                    !.currentFileName  = s.currentFileName,
                    !.sessionStartTime = s.sessionStartTime]

\* Mutant: every closed session is recorded, however short.
endCurrentSession_keepsAll(s) ==
    IF ~s.isTracking THEN s
    ELSE EndWith(s, s.lastActivityTime, 0)

endCurrentSession(s) ==
    IF ~s.isTracking THEN s
    ELSE EndWith(s, s.lastActivityTime, MIN_SESSION_SECONDS)

\* The statement after a call: it runs when the call returned, not when it
\* threw.
Proceed(s1, s2) == IF s1.thrown THEN s1 ELSE s2

\* endCurrentSession() followed by startSession(document)
Restart(s, doc, t) ==
    LET s1 == endCurrentSession(s) IN Proceed(s1, startSession(s1, doc, t))

\* Mutant: a gap of exactly the idle timeout already splits the session.
recordActivity_idleGeq(s, doc, t) ==
    IF ~s.isTracking THEN startSession(s, doc, t)
    ELSE IF doc.languageId # s.currentLanguage \/ doc.fileName # s.currentFileName
         THEN startSession(endCurrentSession(s), doc, t)
    ELSE IF t - s.lastActivityTime >= IDLE_TIMEOUT_MS
         THEN startSession(endCurrentSession(s), doc, t)
    ELSE [s EXCEPT !.lastActivityTime = t]

\* Mutant: only a change of language is taken for a switch.
recordActivity_languageOnly(s, doc, t) ==
    IF ~s.isTracking THEN startSession(s, doc, t)
    ELSE IF doc.languageId # s.currentLanguage
         THEN startSession(endCurrentSession(s), doc, t)
    ELSE IF t - s.lastActivityTime > IDLE_TIMEOUT_MS
         THEN startSession(endCurrentSession(s), doc, t)
    ELSE [s EXCEPT !.lastActivityTime = t]

\* Mutant: a ping within the open session moves its start as well.
recordActivity_movesStart(s, doc, t) ==
    IF ~s.isTracking THEN startSession(s, doc, t)
    ELSE IF doc.languageId # s.currentLanguage \/ doc.fileName # s.currentFileName
         THEN startSession(endCurrentSession(s), doc, t)
    ELSE IF t - s.lastActivityTime > IDLE_TIMEOUT_MS
         THEN startSession(endCurrentSession(s), doc, t)
    ELSE [s EXCEPT !.lastActivityTime = t, !.sessionStartTime = t]

recordActivity(s, doc, t) ==
    IF ~s.isTracking THEN startSession(s, doc, t)
    ELSE IF doc.languageId # s.currentLanguage \/ doc.fileName # s.currentFileName
         THEN Restart(s, doc, t)
    ELSE IF t - s.lastActivityTime > IDLE_TIMEOUT_MS
         THEN Restart(s, doc, t)
    ELSE [s EXCEPT !.lastActivityTime = t]

\* Mutant: the session stays open when no editor is active any more.
onActiveEditorChange_keepsOpen(s, doc, t) ==
    IF doc # NoDoc
    THEN startSession(endCurrentSession(s), doc, t)
    ELSE s

onActiveEditorChange(s, doc, t) ==
    IF doc # NoDoc
    THEN Restart(s, doc, t)
    ELSE endCurrentSession(s)

\* Mutant: a focus loss ends the session at the time of the loss.
onWindowStateChange_endsAtLoss(s, focused, doc, t) ==
    IF ~focused
    THEN IF ~s.isTracking THEN s ELSE EndWith(s, t, MIN_SESSION_SECONDS)
    ELSE IF doc # NoDoc THEN startSession(s, doc, t)
    ELSE s

onWindowStateChange(s, focused, doc, t) ==
    IF ~focused THEN endCurrentSession(s)
    ELSE IF doc # NoDoc THEN startSession(s, doc, t)
    ELSE s

\* Mutant: the operands of the idle test are swapped.
heartbeat_swapped(s, t) ==
    IF s.isTracking /\ s.lastActivityTime - t > IDLE_TIMEOUT_MS
    THEN endCurrentSession(s)
    ELSE s

\* Mutant: a gap of exactly the idle timeout already counts as idle.
heartbeat_idleGeq(s, t) ==
    IF s.isTracking /\ t - s.lastActivityTime >= IDLE_TIMEOUT_MS
    THEN endCurrentSession(s)
    ELSE s

heartbeat(s, t) ==
    IF s.isTracking /\ t - s.lastActivityTime > IDLE_TIMEOUT_MS
    THEN endCurrentSession(s)
    ELSE s

\* The handler's result becomes the next state.  A handler that recorded a
\* session ends the period over which two reads of a day are compared.
Commit(s) ==
    /\ isTracking'       = s.isTracking
    /\ currentLanguage'  = s.currentLanguage
    /\ currentFileName'  = s.currentFileName
    /\ sessionStartTime' = s.sessionStartTime
    /\ lastActivityTime' = s.lastActivityTime
    /\ globalState'      = s.globalState
    /\ fired'            = s.fired
    /\ closed'           = s.closed
    /\ returned'         = s.returned
    /\ alias'            = s.alias
    /\ reads'            = IF s.fired # <<>> THEN << >> ELSE reads
    /\ threw'            = s.thrown

----------------------------------------------------------------------------
(* History variables *)

NoRun == [status |-> "none"]

NoPing == [seen |-> FALSE]

NoGap == [seen |-> FALSE]

EndTimes(cl) == [i \in 1..Len(cl) |-> cl[i].session.endTime]

\* A ping: starts a run when the machine is Idle, extends an open run when
\* the document is the same and the gap is at most the idle timeout.
RunAfterPing(doc, s) ==
    IF ~isTracking
    THEN [status |-> "open", doc |-> doc, first |-> now, last |-> now]
    ELSE IF /\ run.status = "open"
            /\ run.doc = doc
            /\ now - run.last <= IDLE_TIMEOUT_MS
         THEN [run EXCEPT !.last = now]
         ELSE NoRun

\* A handler that may only close the session: an open run becomes closed
\* when the machine went Idle.
RunAfterClose(s) ==
    IF run.status = "open"
    THEN IF s.isTracking THEN run ELSE [run EXCEPT !.status = "closed"]
    ELSE NoRun

HistoryPing(doc, s) ==
    /\ run' = RunAfterPing(doc, s)
    /\ prevPing' = [seen |-> TRUE, doc |-> doc, t |-> now, ends |-> <<>>]
    /\ gapObs' = IF /\ prevPing.seen
                    /\ prevPing.doc = doc
                    /\ now - prevPing.t > IDLE_TIMEOUT_MS
                 THEN [seen |-> TRUE, pre |-> prevPing.t, post |-> now,
                       ends |-> prevPing.ends \o EndTimes(s.closed)]
                 ELSE NoGap

HistoryHeartbeat(s) ==
    /\ run' = RunAfterClose(s)
    /\ prevPing' = IF prevPing.seen
                   THEN [prevPing EXCEPT !.ends = @ \o EndTimes(s.closed)]
                   ELSE prevPing
    /\ gapObs' = NoGap

HistoryClose(s) ==
    /\ run' = RunAfterClose(s)
    /\ prevPing' = NoPing
    /\ gapObs' = NoGap

\* A handler that leaves the state machine alone (a read or a clear).
HistoryRead ==
    /\ run' = IF run.status = "open" THEN run ELSE NoRun
    /\ prevPing' = prevPing
    /\ gapObs' = NoGap

HistoryOther ==
    /\ run' = NoRun
    /\ prevPing' = NoPing
    /\ gapObs' = NoGap

----------------------------------------------------------------------------
(* Initial state: the tracker as constructed by getInstance(context) *)

TrackerInit ==
    /\ now = T0
    /\ lifecycle = "constructed"
    /\ heartbeatTimer = FALSE
    /\ isTracking = FALSE
    /\ currentLanguage = ""
    /\ currentFileName = ""
    /\ sessionStartTime = 0
    /\ lastActivityTime = 0
    /\ globalState = << >>
    /\ fired = <<>>
    /\ closed = <<>>
    /\ lastOp = [op |-> "construct"]
    /\ returned = NoValue
    /\ run = NoRun
    /\ prevPing = NoPing
    /\ gapObs = NoGap
    /\ quiet = FALSE
    /\ left = NoGap
    /\ alias = NoAlias
    /\ reads = << >>
    /\ storeFails = FALSE
    /\ threw = FALSE

NoOutput == [path |-> "none"]

Init ==
    /\ TrackerInit
    /\ gitLog = <<>>
    /\ gitTz = 0
    /\ gitOut = NoOutput
    /\ arg = NoValue
    /\ result = NoValue

----------------------------------------------------------------------------
(* Actions *)

RECURSIVE CountSessions(_)
CountSessions(gs) ==
    IF DOMAIN gs = {} THEN 0
    ELSE LET k == CHOOSE x \in DOMAIN gs : TRUE
         IN  Len(gs[k].sessions) + CountSessions([x \in DOMAIN gs \ {k} |-> gs[x]])

\* Bound of the model on the events that may open a session.
MayOpen == CountSessions(globalState) < MaxSessions

\* The clock advances.
Tick ==
    /\ \E t \in Instants : t > now /\ now' = t
    /\ lastOp' = [op |-> "tick"]
    /\ fired' = <<>>
    /\ threw' = FALSE
    /\ closed' = <<>>
    /\ returned' = NoValue
    /\ alias' = NoAlias
    /\ reads' = reads
    /\ HistoryRead
    /\ UNCHANGED <<lifecycle, heartbeatTimer, tracker, globalState, quiet, left, git, storeFails, pure>>

\* initialize(): subscribes the handlers, starts the heartbeat and, when an
\* editor is active, starts a session.
Initialize ==
    /\ lifecycle = "constructed"
    /\ \E doc \in Docs \cup {NoDoc} :
         /\ Commit(IF doc # NoDoc THEN startSession(Cur, doc, now) ELSE Cur)
         /\ lastOp' = [op |-> "initialize", doc |-> doc]
    /\ lifecycle' = "active"
    /\ heartbeatTimer' = TRUE
    /\ HistoryOther
    /\ UNCHANGED <<now, quiet, left, git, storeFails, pure>>

\* onDocumentChange with content changes on a 'file' document.
Ping ==
    /\ lifecycle = "active" /\ ~quiet
    /\ MayOpen
    /\ \E doc \in Docs :
         LET s == recordActivity(Cur, doc, now) IN
         /\ Commit(s)
         /\ lastOp' = [op |-> "ping", doc |-> doc,
                        timeSinceLastActivity |->
                           IF isTracking THEN now - lastActivityTime ELSE -1]
         /\ HistoryPing(doc, s)
    /\ UNCHANGED <<now, lifecycle, heartbeatTimer, quiet, left, git, storeFails, pure>>

\* onActiveEditorChange(editor), editor a 'file' document or none.
EditorChanged ==
    /\ lifecycle = "active" /\ ~quiet
    /\ \E doc \in Docs \cup {NoDoc} :
         LET s == onActiveEditorChange(Cur, doc, now) IN
         /\ doc # NoDoc => MayOpen
         /\ Commit(s)
         /\ lastOp' = [op |-> "editorChanged", doc |-> doc]
         /\ IF doc = NoDoc THEN HistoryClose(s) ELSE HistoryOther
    /\ UNCHANGED <<now, lifecycle, heartbeatTimer, quiet, left, git, storeFails, pure>>

\* onWindowStateChange({focused: false})
FocusLost ==
    /\ lifecycle = "active" /\ ~quiet
    /\ LET s == onWindowStateChange(Cur, FALSE, NoDoc, now) IN
         /\ Commit(s)
         /\ HistoryClose(s)
    /\ lastOp' = [op |-> "focusLost"]
    /\ UNCHANGED <<now, lifecycle, heartbeatTimer, quiet, left, git, storeFails, pure>>

\* onWindowStateChange({focused: true}), with the active editor's document
\* or none.
FocusGained ==
    /\ lifecycle = "active" /\ ~quiet
    /\ MayOpen
    /\ \E doc \in Docs \cup {NoDoc} :
         /\ Commit(onWindowStateChange(Cur, TRUE, doc, now))
         /\ lastOp' = [op |-> "focusGained", doc |-> doc]
    /\ HistoryOther
    /\ UNCHANGED <<now, lifecycle, heartbeatTimer, quiet, left, git, storeFails, pure>>

\* The setInterval callback of startHeartbeat.
Heartbeat ==
    /\ heartbeatTimer
    /\ LET s == heartbeat(Cur, now) IN
         /\ Commit(s)
         /\ HistoryHeartbeat(s)
    /\ lastOp' = [op |-> "heartbeat"]
    /\ UNCHANGED <<now, lifecycle, heartbeatTimer, quiet, left, git, storeFails, pure>>

\* Mutant: dispose() stops the heartbeat and does not flush the open session.
Dispose_stopsOnly ==
    /\ lifecycle = "active"
    /\ Commit(Cur)
    /\ HistoryClose(Cur)
    /\ heartbeatTimer' = FALSE
    /\ lifecycle' = "disposed"
    /\ lastOp' = [op |-> "dispose"]
    /\ UNCHANGED <<now, quiet, left, git, storeFails, pure>>

\* dispose(), called by deactivate().
\* stopHeartbeat() follows endCurrentSession() and is not reached when that
\* throws.
Dispose ==
    /\ lifecycle = "active"
    /\ LET s == endCurrentSession(Cur) IN
         /\ Commit(s)
         /\ HistoryClose(s)
         /\ heartbeatTimer' = IF s.thrown THEN heartbeatTimer ELSE FALSE
    /\ lifecycle' = "disposed"
    /\ lastOp' = [op |-> "dispose"]
    /\ UNCHANGED <<now, quiet, left, git, storeFails, pure>>

getAllStoredDates(gs) == DOMAIN gs

\* Mutant: clearing one day empties the store.
clearDailyStats_wipes(gs, dateKey) == << >>

clearDailyStats(gs, dateKey) == Remove(gs, dateKey)

RECURSIVE clearDates(_, _)
clearDates(gs, dates) ==
    IF dates = {} THEN gs
    ELSE LET date == CHOOSE d \in dates : TRUE
         IN  clearDates(clearDailyStats(gs, date), dates \ {date})

clearAllStats(gs) == clearDates(gs, getAllStoredDates(gs))

\* The copy of the stored aggregate that getTodayStats returns: a new object
\* with a new languageStats map and a new sessions array, whose elements are
\* the stored session objects.
CopyOf(gs, dateKey) ==
    IF dateKey \in DOMAIN gs
    THEN [depth |-> "sessions", dateKey |-> dateKey]
    ELSE NoAlias

\* Mutant: the provisional duration is added whatever its length.
getTodayStats_noMinimum(s, t) ==
    LET today  == getDateKey(t)
        stored == getDailyStats(s.globalState, today)
        currentDuration ==
            (s.lastActivityTime - s.sessionStartTime) \div MsPerSecond
        lang   == s.currentLanguage
        before == IF lang \in DOMAIN stored.languageStats
                  THEN stored.languageStats[lang] ELSE 0
        stats  == IF s.isTracking
                  THEN [stored EXCEPT
                          !.totalSeconds  = @ + currentDuration,
                          !.languageStats = Put(@, lang, before + currentDuration)]
                  ELSE stored
    IN  [s EXCEPT !.returned = stats,
                  !.alias    = CopyOf(s.globalState, today)]

\* Mutant: the open session is closed for real before the totals are read.
getTodayStats_closes(s, t) ==
    LET today  == getDateKey(t)
        s1     == endCurrentSession(s)
    IN  [s1 EXCEPT !.returned = getDailyStats(s1.globalState, today),
                   !.alias    = CopyOf(s1.globalState, today)]

\* Mutant: the provisional duration is added to the stored aggregate itself,
\* not to a copy of it.
getTodayStats_inPlace(s, t) ==
    LET today  == getDateKey(t)
        stored == getDailyStats(s.globalState, today)
        currentDuration ==
            (s.lastActivityTime - s.sessionStartTime) \div MsPerSecond
        lang   == s.currentLanguage
        before == IF lang \in DOMAIN stored.languageStats
                  THEN stored.languageStats[lang] ELSE 0
        stats  == IF s.isTracking /\ currentDuration >= MIN_SESSION_SECONDS
                  THEN [stored EXCEPT
                          !.totalSeconds  = @ + currentDuration,
                          !.languageStats = Put(@, lang, before + currentDuration)]
                  ELSE stored
    IN  [s EXCEPT !.returned = stats,
                  !.alias    = IF today \in DOMAIN s.globalState
                               THEN [depth |-> "object", dateKey |-> today]
                               ELSE NoAlias,
                  !.globalState = IF today \in DOMAIN s.globalState
                                  THEN Put(@, today, stats) ELSE @]

\* Mutant: the provisional duration runs to the moment of the read.
getTodayStats_untilNow(s, t) ==
    LET today  == getDateKey(t)
        stored == getDailyStats(s.globalState, today)
        currentDuration == (t - s.sessionStartTime) \div MsPerSecond
        lang   == s.currentLanguage
        before == IF lang \in DOMAIN stored.languageStats
                  THEN stored.languageStats[lang] ELSE 0
        stats  == IF s.isTracking /\ currentDuration >= MIN_SESSION_SECONDS
                  THEN [stored EXCEPT
                          !.totalSeconds  = @ + currentDuration,
                          !.languageStats = Put(@, lang, before + currentDuration)]
                  ELSE stored
    IN  [s EXCEPT !.returned = stats,
                  !.alias    = CopyOf(s.globalState, today)]

getTodayStats(s, t) ==
    LET today  == getDateKey(t)
        stored == getDailyStats(s.globalState, today)
        currentDuration ==
            (s.lastActivityTime - s.sessionStartTime) \div MsPerSecond
        lang   == s.currentLanguage
        before == IF lang \in DOMAIN stored.languageStats
                  THEN stored.languageStats[lang] ELSE 0
        stats  == IF s.isTracking /\ currentDuration >= MIN_SESSION_SECONDS
                  THEN [stored EXCEPT
                          !.totalSeconds  = @ + currentDuration,
                          !.languageStats = Put(@, lang, before + currentDuration)]
                  ELSE stored
    IN  [s EXCEPT !.returned = stats,
                  !.alias    = CopyOf(s.globalState, today)]

\* The days a clearDailyStats call may name.
DateKeys == {getDateKey(t) : t \in Instants}

\* clearAllStats(), from the workhoursrecord.clearStats command.
ClearAll ==
    /\ lifecycle = "active"
    /\ globalState' = clearAllStats(globalState)
    /\ fired' = <<>>
    /\ threw' = FALSE
    /\ closed' = <<>>
    /\ returned' = NoValue
    /\ alias' = NoAlias
    /\ reads' = << >>
    /\ lastOp' = [op |-> "clearAll", dates |-> getAllStoredDates(globalState)]
    /\ HistoryRead
    /\ UNCHANGED <<now, lifecycle, heartbeatTimer, tracker, quiet, left, git, storeFails, pure>>

\* clearDailyStats(dateKey)
ClearDay ==
    /\ lifecycle = "active"
    /\ \E dateKey \in DateKeys :
         /\ globalState' = clearDailyStats(globalState, dateKey)
         /\ lastOp' = [op |-> "clearDay", dateKey |-> dateKey,
                        stored |-> dateKey \in DOMAIN globalState]
    /\ fired' = <<>>
    /\ threw' = FALSE
    /\ closed' = <<>>
    /\ returned' = NoValue
    /\ alias' = NoAlias
    /\ reads' = << >>
    /\ HistoryRead
    /\ UNCHANGED <<now, lifecycle, heartbeatTimer, tracker, quiet, left, git, storeFails, pure>>

\* getTodayStats(), from the side-bar view and the report panel.
GetTodayStats ==
    /\ lifecycle = "active"
    /\ Commit(getTodayStats(Cur, now))
    /\ lastOp' = [op |-> "getTodayStats"]
    /\ HistoryRead
    /\ UNCHANGED <<now, lifecycle, heartbeatTimer, quiet, left, git, storeFails, pure>>

\* getDailyStats(dateKey), from the report panel and the CSV export: the
\* object held by globalState is returned as it is, a day that is not stored
\* gives a new empty aggregate.
GetDailyStats ==
    /\ lifecycle = "active"
    /\ \E dateKey \in DateKeys :
         /\ returned' = getDailyStats(globalState, dateKey)
         /\ alias' = IF dateKey \in DOMAIN globalState
                     THEN [depth |-> "object", dateKey |-> dateKey]
                     ELSE NoAlias
         /\ reads' = Put(reads, dateKey, getDailyStats(globalState, dateKey))
         /\ lastOp' = [op |-> "getDailyStats", dateKey |-> dateKey,
                        again |-> dateKey \in DOMAIN reads]
    /\ fired' = <<>>
    /\ threw' = FALSE
    /\ closed' = <<>>
    /\ HistoryRead
    /\ UNCHANGED <<now, lifecycle, heartbeatTimer, tracker, globalState, quiet, left, git, storeFails, pure>>

\* The user walks away: from now on no document, editor or window event.
WalkAway ==
    /\ lifecycle = "active" /\ ~quiet
    /\ quiet' = TRUE
    /\ left' = IF isTracking
               THEN [seen |-> TRUE,
                     session |->
                       [startTime       |-> sessionStartTime,
                        endTime         |-> lastActivityTime,
                        languageId      |-> currentLanguage,
                        fileName        |-> currentFileName,
                        durationSeconds |->
                          (lastActivityTime - sessionStartTime) \div MsPerSecond]]
               ELSE NoGap
    /\ lastOp' = [op |-> "walkAway"]
    /\ fired' = <<>>
    /\ threw' = FALSE
    /\ closed' = <<>>
    /\ returned' = NoValue
    /\ alias' = NoAlias
    /\ reads' = reads
    /\ HistoryRead
    /\ UNCHANGED <<now, lifecycle, heartbeatTimer, tracker, globalState, git, storeFails, pure>>

Next ==
    \/ Tick
    \/ Initialize
    \/ Ping
    \/ EditorChanged
    \/ FocusLost
    \/ FocusGained
    \/ Heartbeat
    \/ Dispose
    \/ ClearAll
    \/ ClearDay
    \/ GetTodayStats

Spec == Init /\ [][Next]_vars

\* The tracker with callers that read single days: pings, focus losses and
\* heartbeats open and close sessions, days are read and cleared.
ReadNext ==
    \/ Tick
    \/ Initialize
    \/ Ping
    \/ FocusLost
    \/ Heartbeat
    \/ ClearDay
    \/ ClearAll
    \/ GetTodayStats
    \/ GetDailyStats

ReadSpec == Init /\ [][ReadNext]_vars

\* What a caller may do to an aggregate it was handed: overwrite a field,
\* change an entry of the languageStats map, empty the sessions array, or
\* change a field of the first session.
Mutations == {"total", "language", "truncate", "session"}

Mutated(stats, kind) ==
    CASE kind = "total"    -> [stats EXCEPT !.totalSeconds = 0]
      [] kind = "language" -> [stats EXCEPT !.languageStats =
                                  [lang \in DOMAIN @ |-> 0]]
      [] kind = "truncate" -> [stats EXCEPT !.sessions = <<>>]
      [] kind = "session"  -> IF stats.sessions = <<>> THEN stats
                              ELSE [stats EXCEPT
                                      !.sessions[1].durationSeconds = 0]

\* The objects the mutation reaches that the store holds too: all of them
\* when the store's own object was returned, the session objects when a
\* copy of the arrays was returned.
Reaches(al, kind) ==
    \/ al.depth = "object"
    \/ al.depth = "sessions" /\ kind = "session"

\* Every stored total is the sum of its sessions and of its languages, as the
\* tracker writes it.
Untouched(gs) ==
    \A d \in DOMAIN gs :
       /\ gs[d].totalSeconds = SumSeq(Durations(gs[d].sessions))
       /\ gs[d].totalSeconds = SumMap(gs[d].languageStats)

\* The caller of getDailyStats or getTodayStats mutates the value it was
\* just handed.  Bound of the model: no further mutation once one has reached
\* the store.
MutateReturned ==
    /\ lastOp.op \in {"getDailyStats", "getTodayStats"}
    /\ Untouched(globalState)
    /\ \E kind \in Mutations :
         /\ returned' = Mutated(returned, kind)
         /\ globalState' =
               IF Reaches(alias, kind)
               THEN [globalState EXCEPT ![alias.dateKey] = Mutated(@, kind)]
               ELSE globalState
         /\ lastOp' = [op |-> "mutate", kind |-> kind]
    /\ fired' = <<>>
    /\ threw' = FALSE
    /\ closed' = <<>>
    /\ HistoryRead
    /\ UNCHANGED <<now, lifecycle, heartbeatTimer, tracker, alias, reads,
                   quiet, left, git, storeFails, pure>>

\* The tracker with a caller that mutates what it reads.  Once a mutation has
\* reached the store only reads follow.
AliasEvents ==
    \/ Tick
    \/ Initialize
    \/ Ping
    \/ FocusLost

AliasNext ==
    \/ (Untouched(globalState) /\ AliasEvents)
    \/ GetTodayStats
    \/ GetDailyStats
    \/ MutateReturned

AliasSpec == Init /\ [][AliasNext]_vars

\* The store starts to throw on access, or stops doing so.
StoreTurns ==
    /\ lifecycle = "active"
    /\ storeFails' = ~storeFails
    /\ lastOp' = [op |-> "storeTurns", fails |-> ~storeFails]
    /\ returned' = NoValue
    /\ alias' = NoAlias
    /\ reads' = reads
    /\ closed' = <<>>
    /\ fired' = <<>>
    /\ threw' = FALSE
    /\ HistoryRead
    /\ UNCHANGED <<now, lifecycle, heartbeatTimer, tracker, globalState, quiet,
                   left, git, pure>>

\* The tracker with a store that may throw.
FaultNext ==
    \/ Tick
    \/ Initialize
    \/ Ping
    \/ FocusLost
    \/ Heartbeat
    \/ Dispose
    \/ StoreTurns

FaultSpec == Init /\ [][FaultNext]_vars

\* The same state machine with an environment that may fall silent, a clock
\* that keeps advancing and a timer that keeps firing while it is armed.  The
\* clock of the model stops at MaxInstant, so the environment acts only while
\* an idle timeout can still expire before that.
LiveEvents ==
    \/ Initialize
    \/ Ping
    \/ EditorChanged
    \/ FocusLost
    \/ FocusGained

LiveNext ==
    \/ Tick
    \/ (now + IDLE_TIMEOUT_MS < MaxInstant /\ LiveEvents)
    \/ Heartbeat
    \/ Dispose
    \/ WalkAway

LiveSpec ==
    Init /\ [][LiveNext]_vars /\ WF_vars(Tick) /\ WF_vars(Heartbeat)

----------------------------------------------------------------------------
(* Commit-log mode: the WorkRecords computed from git.log()                *)
(*                                                                         *)
(* A commit's date is the text git prints, a calendar day, a time of day   *)
(* and an offset from UTC; Date values are milliseconds since the epoch.   *)
(* hours is a quotient of JavaScript numbers; the model keeps it as the    *)
(* fraction num / den and does not round it.                               *)

MsPerMinute == 60 * 1000

MsPerHour == 1000 * 60 * 60

MinutesPerDay == 24 * 60

\* commit.date as printed by git: day (days since the epoch), minute of that
\* day, and offset of the author's clock from UTC in minutes.
DateStrings ==
    { [day |-> 0, minute |-> 9 * 60,       offset |-> 0],
      [day |-> 0, minute |-> 10 * 60 + 30, offset |-> 0],
      [day |-> 0, minute |-> 23 * 60 + 30, offset |-> 0],
      [day |-> 1, minute |-> 7 * 60 + 30,  offset |-> 8 * 60] }

\* commit.author_name; NoAuthor is a record without an author.
NoAuthor == "undefined"

AuthorNames == {"ann", "bob", NoAuthor}

\* Offsets of the machine's local time from UTC, in minutes.
TzOffsets == {0, 8 * 60}

\* log.all: the records in the order git returned them, the hash being the
\* position in the log.
LogOf(f) ==
    [i \in DOMAIN f |-> [author_name |-> f[i][1], date |-> f[i][2], hash |-> i]]

Logs ==
    {LogOf(f) : f \in UNION {[1..n -> AuthorNames \X DateStrings] : n \in 0..MaxCommits}}

\* new Date(commit.date).getTime()
DateParse(str) ==
    (str.day * MinutesPerDay + str.minute - str.offset) * MsPerMinute

\* date.toLocaleDateString(): the calendar day of the date on the machine's
\* clock.
toLocaleDateString(date, tz) == (date + tz * MsPerMinute) \div MsPerDay

\* ms / (1000 * 60 * 60)
Hours(ms) == [num |-> ms, den |-> MsPerHour]

AddHours(a, b) == [num |-> a.num + b.num, den |-> a.den]

\* records.has(author) and records.get(author): the position of the
\* author's record, 0 when there is none.
RecordIndex(records, author) ==
    IF \E i \in 1..Len(records) : records[i].author = author
    THEN CHOOSE i \in 1..Len(records) : records[i].author = author
    ELSE 0

\* dayMap.has(day) and dayMap.get(day)
DayIndex(dayMap, day) ==
    IF \E i \in 1..Len(dayMap) : dayMap[i].day = day
    THEN CHOOSE i \in 1..Len(dayMap) : dayMap[i].day = day
    ELSE 0

\* The body of log.all.forEach: the commit is added to the record of its
\* author, which is created at the author's first commit.
AddCommit(records, commit) ==
    LET author == commit.author_name
        detail == [date |-> DateParse(commit.date), hash |-> commit.hash]
        i      == RecordIndex(records, author)
    IN  IF i = 0
        THEN Append(records, [author        |-> author,
                              commits       |-> 1,
                              commitDetails |-> <<detail>>,
                              dailyWork     |-> <<>>,
                              totalHours    |-> Hours(0)])
        ELSE [records EXCEPT ![i].commits       = @ + 1,
                             ![i].commitDetails = Append(@, detail)]

RECURSIVE CollectRecords(_)
CollectRecords(log) ==
    IF log = <<>> THEN <<>>
    ELSE AddCommit(CollectRecords(SubSeq(log, 1, Len(log) - 1)), log[Len(log)])

\* seq, sorted by date, with c added after the elements that are not later.
InsertByDate(seq, c) ==
    LET n == Cardinality({i \in 1..Len(seq) : seq[i].date <= c.date})
    IN  SubSeq(seq, 1, n) \o <<c>> \o SubSeq(seq, n + 1, Len(seq))

\* Mutant: the commits stay in the order of the log.
SortCommitDetails_none(seq) == seq

\* Mutant: the comparator is b - a.
RECURSIVE SortCommitDetails_descending(_)
SortCommitDetails_descending(seq) ==
    IF seq = <<>> THEN <<>>
    ELSE LET rest == SortCommitDetails_descending(SubSeq(seq, 1, Len(seq) - 1))
             c    == seq[Len(seq)]
             n    == Cardinality({i \in 1..Len(rest) : rest[i].date >= c.date})
         IN  SubSeq(rest, 1, n) \o <<c>> \o SubSeq(rest, n + 1, Len(rest))

\* commitDetails.sort((a, b) => a.date.getTime() - b.date.getTime()); the
\* sort is stable.
RECURSIVE SortCommitDetails(_)
SortCommitDetails(seq) ==
    IF seq = <<>> THEN <<>>
    ELSE InsertByDate(SortCommitDetails(SubSeq(seq, 1, Len(seq) - 1)),
                      seq[Len(seq)])

\* The body of commitDetails.forEach: the commit is added to the entry of
\* its day in dayMap, which is created at the day's first commit.
AddToDay(dayMap, commit, tz) ==
    LET day == toLocaleDateString(commit.date, tz)
        i   == DayIndex(dayMap, day)
    IN  IF i = 0
        THEN Append(dayMap, [day |-> day, commits |-> <<commit>>])
        ELSE [dayMap EXCEPT ![i].commits = Append(@, commit)]

\* Mutant: all the commits of an author are taken for one day's.
DayMapOf_oneDay(details, tz) ==
    IF details = <<>> THEN <<>>
    ELSE << [day |-> toLocaleDateString(details[1].date, tz), commits |-> details] >>

\* dayMap, its entries in the order of their insertion.
RECURSIVE DayMapOf(_, _)
DayMapOf(details, tz) ==
    IF details = <<>> THEN <<>>
    ELSE AddToDay(DayMapOf(SubSeq(details, 1, Len(details) - 1), tz),
                  details[Len(details)], tz)

\* The body of dayMap.forEach
DayWorkOf(entry) ==
    LET first == entry.commits[1].date
        last  == entry.commits[Len(entry.commits)].date
    IN  [day         |-> entry.day,
         firstCommit |-> first,
         lastCommit  |-> last,
         hours       |-> Hours(last - first),
         commits     |-> entry.commits]

\* dailyWork.sort((a, b) => a.firstCommit.getTime() - b.firstCommit.getTime())
RECURSIVE SortDailyWork(_)
SortDailyWork(seq) ==
    IF seq = <<>> THEN <<>>
    ELSE LET rest == SortDailyWork(SubSeq(seq, 1, Len(seq) - 1))
             d    == seq[Len(seq)]
             n    == Cardinality({i \in 1..Len(rest) :
                                     rest[i].firstCommit <= d.firstCommit})
         IN  SubSeq(rest, 1, n) \o <<d>> \o SubSeq(rest, n + 1, Len(rest))

RECURSIVE SumHours(_)
SumHours(daily) ==
    IF daily = <<>> THEN Hours(0)
    ELSE AddHours(SumHours(SubSeq(daily, 1, Len(daily) - 1)),
                  daily[Len(daily)].hours)

\* The body of records.forEach; sortDays tells whether the code path sorts
\* dailyWork at its end.
Aggregate(record, tz, sortDays) ==
    LET sorted == SortCommitDetails(record.commitDetails)
        dayMap == DayMapOf(sorted, tz)
        daily  == [i \in 1..Len(dayMap) |-> DayWorkOf(dayMap[i])]
    IN  [record EXCEPT !.commitDetails = sorted,
                       !.dailyWork     = IF sortDays THEN SortDailyWork(daily)
                                         ELSE daily,
                       !.totalHours    = SumHours(daily)]

\* The WorkRecords, in the order of the authors' first commits in the log.
WorkRecords(log, tz, sortDays) ==
    LET records == CollectRecords(log)
    IN  [i \in 1..Len(records) |-> Aggregate(records[i], tz, sortDays)]

GitInit ==
    /\ TrackerInit
    /\ gitLog \in Logs
    /\ gitTz \in TzOffsets
    /\ gitOut = NoOutput
    /\ arg = NoValue
    /\ result = NoValue

\* handleUpload: the upload of the side-bar view; dailyWork is not sorted.
HandleUpload ==
    /\ gitOut' = [path |-> "upload",
                  records |-> WorkRecords(gitLog, gitTz, FALSE)]
    /\ UNCHANGED <<edit, gitLog, gitTz, pure>>

\* showGitHoursPanel: the report panel.
ShowGitHoursPanel ==
    /\ gitOut' = [path |-> "panel",
                  records |-> WorkRecords(gitLog, gitTz, TRUE)]
    /\ UNCHANGED <<edit, gitLog, gitTz, pure>>

\* The workhoursrecord.exportCSV command.
ExportCSV ==
    /\ gitOut' = [path |-> "csv",
                  records |-> WorkRecords(gitLog, gitTz, TRUE)]
    /\ UNCHANGED <<edit, gitLog, gitTz, pure>>

GitNext ==
    \/ HandleUpload
    \/ ShowGitHoursPanel
    \/ ExportCSV

GitSpec == GitInit /\ [][GitNext]_vars

----------------------------------------------------------------------------
(* Language shares: getLanguagePercentages(stats)                          *)
(*                                                                         *)
(* Here languageStats is the sequence Object.entries gives, the pairs of   *)
(* language and seconds in the order in which the keys were added.  A      *)
(* percentage is a quotient of JavaScript numbers, kept as num / den.      *)

\* Language identifiers, in ascending order of their text.
LanguageOrder == <<"go", "python", "rust", "typescript">>

ShareLanguages == {LanguageOrder[i] : i \in 1..Len(LanguageOrder)}

\* Seconds an entry may hold: none, the shortest session, a longer one.
ShareSeconds == {0, 10, 120}

RECURSIVE SumEntries(_)
SumEntries(entries) ==
    IF entries = <<>> THEN 0
    ELSE entries[Len(entries)][2] + SumEntries(SubSeq(entries, 1, Len(entries) - 1))

\* The entries of a languageStats object: every language at most once.
EntryLists ==
    {f \in UNION {[1..n -> ShareLanguages \X ShareSeconds] : n \in 0..MaxLanguages} :
        \A i, j \in DOMAIN f : f[i][1] = f[j][1] => i = j}

\* The aggregates: totalSeconds is the sum of the languages' seconds.
ShareInputs ==
    {[totalSeconds |-> SumEntries(f), languageStats |-> f] : f \in EntryLists}

\* (seconds / stats.totalSeconds) * 100
Percentage(seconds, totalSeconds) == [num |-> seconds * 100, den |-> totalSeconds]

\* result.sort((a, b) => b.seconds - a.seconds); the sort is stable.
RECURSIVE SortBySeconds(_)
SortBySeconds(seq) ==
    IF seq = <<>> THEN <<>>
    ELSE LET rest == SortBySeconds(SubSeq(seq, 1, Len(seq) - 1))
             e    == seq[Len(seq)]
             n    == Cardinality({i \in 1..Len(rest) : rest[i].seconds >= e.seconds})
         IN  SubSeq(rest, 1, n) \o <<e>> \o SubSeq(rest, n + 1, Len(rest))

getLanguagePercentages(stats) ==
    IF stats.totalSeconds = 0 THEN <<>>
    ELSE SortBySeconds(
           [i \in 1..Len(stats.languageStats) |->
              [language   |-> stats.languageStats[i][1],
               seconds    |-> stats.languageStats[i][2],
               percentage |-> Percentage(stats.languageStats[i][2],
                                         stats.totalSeconds)]])

ShareInit ==
    /\ TrackerInit
    /\ gitLog = <<>>
    /\ gitTz = 0
    /\ gitOut = NoOutput
    /\ arg \in ShareInputs
    /\ result = NoValue

\* The side-bar view and the report panel compute the shares of an aggregate.
GetLanguagePercentages ==
    /\ result' = [op |-> "shares", value |-> getLanguagePercentages(arg)]
    /\ UNCHANGED <<edit, git, arg>>

ShareNext == GetLanguagePercentages

ShareSpec == ShareInit /\ [][ShareNext]_vars

----------------------------------------------------------------------------
(* Durations as text: formatDuration(seconds)                              *)
(*                                                                         *)
(* A string is the sequence of its UTF-16 code units.                      *)

\* The unit texts of the template literals: U+5C0F U+65F6 (hours),
\* U+5206 U+949F (minutes) and U+79D2 (seconds).
HourText == <<23567, 26102>>

MinuteText == <<20998, 38047>>

SecondText == <<31186>>

\* `${n}` for a non-negative integer: its decimal digits, '0' being U+0030.
RECURSIVE NumberToString(_)
NumberToString(n) ==
    IF n < 10 THEN <<48 + n>>
    ELSE NumberToString(n \div 10) \o <<48 + (n % 10)>>

\* Mutant: the minutes are not reduced by the hours.
formatDuration_allMinutes(seconds) ==
    LET hours   == seconds \div 3600
        minutes == seconds \div 60
        secs    == seconds % 60
    IN  IF hours > 0
        THEN NumberToString(hours) \o HourText \o NumberToString(minutes) \o MinuteText
        ELSE IF minutes > 0
        THEN NumberToString(minutes) \o MinuteText \o NumberToString(secs) \o SecondText
        ELSE NumberToString(secs) \o SecondText

formatDuration(seconds) ==
    LET hours   == seconds \div 3600
        minutes == (seconds % 3600) \div 60
        secs    == seconds % 60
    IN  IF hours > 0
        THEN NumberToString(hours) \o HourText \o NumberToString(minutes) \o MinuteText
        ELSE IF minutes > 0
        THEN NumberToString(minutes) \o MinuteText \o NumberToString(secs) \o SecondText
        ELSE NumberToString(secs) \o SecondText

\* The durations that are formatted: all up to MaxSeconds, and some of
\* several hours.
FormatInputs == 0..MaxSeconds \cup {7322, 86399, 86400, 360000}

FormatInit ==
    /\ TrackerInit
    /\ gitLog = <<>>
    /\ gitTz = 0
    /\ gitOut = NoOutput
    /\ arg \in FormatInputs
    /\ result = NoValue

\* The views format a number of seconds.
FormatDuration ==
    /\ result' = [op |-> "format", value |-> formatDuration(arg)]
    /\ UNCHANGED <<edit, git, arg>>

FormatNext == FormatDuration

FormatSpec == FormatInit /\ [][FormatNext]_vars

----------------------------------------------------------------------------
TypeOK ==
    /\ \A d \in DOMAIN globalState : globalState[d].date = d
    /\ now \in Instants
    /\ lifecycle \in {"constructed", "active", "disposed"}
    /\ heartbeatTimer \in BOOLEAN
    /\ isTracking \in BOOLEAN
    /\ sessionStartTime \in Instants \cup {0}
    /\ lastActivityTime \in Instants \cup {0}
    /\ quiet \in BOOLEAN

----------------------------------------------------------------------------
(* Vocabulary of the properties *)

\* A step taken by a handler of the tracker.
HandlerStep == lastOp'.op \notin {"tick", "walkAway"}

Floor(ms) == ms \div MsPerSecond

\* The session that is open in the current state.
OpenSession ==
    [startTime       |-> sessionStartTime,
     endTime         |-> lastActivityTime,
     languageId      |-> currentLanguage,
     fileName        |-> currentFileName,
     durationSeconds |-> Floor(lastActivityTime - sessionStartTime)]

StoredSessions(gs, dateKey) ==
    IF dateKey \in DOMAIN gs THEN gs[dateKey].sessions ELSE <<>>

StoredTotal(gs, dateKey) ==
    IF dateKey \in DOMAIN gs THEN gs[dateKey].totalSeconds ELSE 0

InSeq(x, seq) == \E i \in 1..Len(seq) : seq[i] = x

\* The step appended exactly the session ses to the day of its start and to
\* no other day.
RecordedBy(gs, gs2, ses) ==
    LET k == getDateKey(ses.startTime) IN
    /\ k \in DOMAIN gs2
    /\ gs2[k].sessions = Append(StoredSessions(gs, k), ses)
    /\ \A d \in (DOMAIN gs \cup DOMAIN gs2) \ {k} :
          d \in DOMAIN gs /\ d \in DOMAIN gs2 /\ gs2[d] = gs[d]

----------------------------------------------------------------------------
\* C1: a run of pings on one document that starts from Idle and whose gaps
\* are all at most IDLE_TIMEOUT_MS stays one open session from the first ping
\* to the last, and its final close (heartbeat, focus loss, editor closed or
\* dispose) produces exactly one session, from the first ping's time to the
\* last ping's time, which is recorded when it lasts MIN_SESSION_SECONDS.
C1_OneSessionPerRun ==
    /\ run.status = "open" =>
          /\ closed = <<>>
          /\ isTracking
          /\ sessionStartTime = run.first
          /\ lastActivityTime = run.last
    /\ run.status = "closed" =>
          /\ ~isTracking
          /\ Len(closed) = 1
          /\ closed[1].session.startTime = run.first
          /\ closed[1].session.endTime = run.last
          /\ closed[1].session.languageId = run.doc.languageId
          /\ closed[1].session.fileName = run.doc.fileName
          /\ Floor(run.last - run.first) >= MIN_SESSION_SECONDS =>
                /\ Len(fired) = 1
                /\ InSeq(closed[1].session,
                         StoredSessions(globalState, getDateKey(run.first)))

C1_Witness ==
    /\ run.status = "closed"
    /\ lastOp.op = "heartbeat"
    /\ run.first = T0
    /\ run.last = T0 + 120000
    /\ globalState # << >>

\* C2: when two consecutive pings on the same document are more than
\* IDLE_TIMEOUT_MS apart, exactly one session ends between them (by the
\* heartbeat or by the second ping), it ends at the first ping's time, and
\* the second ping opens a session that starts at the second ping's time.
C2_GapSplitsSessions ==
    gapObs.seen =>
        /\ gapObs.ends = <<gapObs.pre>>
        /\ isTracking
        /\ sessionStartTime = gapObs.post
        /\ lastActivityTime = gapObs.post

C2_Witness ==
    /\ gapObs.seen
    /\ Len(closed) = 1
    /\ closed[1].saved
    /\ closed[1].session.endTime = gapObs.pre

\* C3: a close of a session of fewer than MIN_SESSION_SECONDS whole seconds
\* leaves the store unchanged and fires no notification, whatever handler
\* closes it; a close of a session of at least MIN_SESSION_SECONDS (exactly
\* that many included) records it and fires.
C3_ShortSessionsDiscarded ==
    [][ (HandlerStep /\ closed' # <<>>) =>
          /\ isTracking
          /\ Len(closed') = 1
          /\ closed'[1].session = OpenSession
          /\ IF Floor(lastActivityTime - sessionStartTime) < MIN_SESSION_SECONDS
             THEN globalState' = globalState /\ fired' = <<>>
             ELSE RecordedBy(globalState, globalState', OpenSession)
                  /\ Len(fired') = 1 ]_vars

C3_Witness ==
    /\ Len(closed) = 1
    /\ closed[1].session.endTime - closed[1].session.startTime = 9999
    /\ closed[1].session.durationSeconds = 9
    /\ fired = <<>>

\* C4: every stored day's totalSeconds equals the sum of its languageStats
\* and the sum of the durations of its sessions.
C4_TotalsAgree ==
    \A d \in DOMAIN globalState :
        /\ globalState[d].totalSeconds = SumMap(globalState[d].languageStats)
        /\ globalState[d].totalSeconds
              = SumSeq(Durations(globalState[d].sessions))

C4_Witness ==
    \E d \in DOMAIN globalState :
        /\ Len(globalState[d].sessions) >= 2
        /\ Cardinality(DOMAIN globalState[d].languageStats) = 2

\* C5: once the user has walked away with a session open, the heartbeat
\* (or dispose) eventually closes that very session, leaving the machine
\* Idle, and the session is then in the store when it lasts
\* MIN_SESSION_SECONDS.
C5_EventuallyFlushed ==
    (quiet /\ lifecycle = "active" /\ isTracking)
    ~>
    ( /\ ~isTracking
      /\ left.seen
      /\ Len(closed) = 1
      /\ closed[1].session = left.session
      /\ left.session.durationSeconds >= MIN_SESSION_SECONDS =>
            InSeq(left.session,
                  StoredSessions(globalState,
                                 getDateKey(left.session.startTime))) )

C5_Witness ==
    /\ quiet
    /\ left.seen
    /\ lastOp.op = "heartbeat"
    /\ ~isTracking
    /\ closed = <<[session |-> left.session, saved |-> TRUE]>>
    /\ InSeq(left.session,
             StoredSessions(globalState, getDateKey(left.session.startTime)))

----------------------------------------------------------------------------
\* What the close of the open session does to the store: it is recorded on
\* the day of its start when it lasts MIN_SESSION_SECONDS, and dropped
\* without a trace otherwise.
CloseEffect ==
    /\ closed' = <<[session |-> OpenSession,
                    saved |-> OpenSession.durationSeconds >= MIN_SESSION_SECONDS]>>
    /\ IF OpenSession.durationSeconds >= MIN_SESSION_SECONDS
       THEN RecordedBy(globalState, globalState', OpenSession)
            /\ Len(fired') = 1
       ELSE globalState' = globalState /\ fired' = <<>>

NoEffect ==
    /\ UNCHANGED <<tracker, globalState>>
    /\ closed' = <<>>
    /\ fired' = <<>>

OpensAt(doc, t) ==
    /\ isTracking'
    /\ currentLanguage' = doc.languageId
    /\ currentFileName' = doc.fileName
    /\ sessionStartTime' = t
    /\ lastActivityTime' = t

\* The heartbeat closes the open session, with its last activity as its end,
\* exactly when the machine is Tracking and more than IDLE_TIMEOUT_MS have
\* passed since the last activity; otherwise it changes nothing.
HeartbeatRule ==
    [][ lastOp'.op = "heartbeat" =>
          IF isTracking /\ now - lastActivityTime > IDLE_TIMEOUT_MS
          THEN CloseEffect /\ ~isTracking'
          ELSE NoEffect ]_vars

\* The heartbeat has just run at T0 + hb, after a run of pings on a go
\* document from T0 to T0 + 120 s.
ExampleAt(hb) ==
    /\ lastOp.op = "heartbeat"
    /\ now = T0 + hb
    /\ run.status \in {"open", "closed"}
    /\ run.first = T0
    /\ run.last = T0 + 120000
    /\ run.doc.languageId = "go"

\* One session [T0, T0 + 120 s] of 120 s was closed and recorded for go.
ExampleClosed ==
    /\ ~isTracking
    /\ Len(closed) = 1
    /\ closed[1].saved
    /\ closed[1].session.startTime = T0
    /\ closed[1].session.endTime = T0 + 120000
    /\ closed[1].session.durationSeconds = 120
    /\ closed[1].session.languageId = "go"
    /\ InSeq(closed[1].session, StoredSessions(globalState, getDateKey(T0)))
    /\ globalState[getDateKey(T0)].languageStats["go"] >= 120

\* C6 (as stated): the heartbeat rule, and pings at 0 s and 120 s followed by
\* a heartbeat at 400 s yield one recorded session [0, 120] of 120 s.
C6_Original ==
    HeartbeatRule /\ [](ExampleAt(400000) => ExampleClosed)

\* C6 (amended): the heartbeat rule, and pings at 0 s and 120 s followed by a
\* heartbeat later than 420 s (here at 429.999 s) yield one recorded session
\* [0, 120] of 120 s; a heartbeat at 400 s or at 420 s leaves it open.
C6_HeartbeatClosesWhenIdle ==
    /\ HeartbeatRule
    /\ [](ExampleAt(429999) => ExampleClosed)
    /\ [](ExampleAt(400000) \/ ExampleAt(420000) =>
            isTracking /\ closed = <<>> /\ run.status = "open")

C6_Witness ==
    ExampleAt(429999) /\ ExampleClosed

\* C7: a focus gain or an editor change to a document, received while
\* Tracking, closes the open session (end = last activity; recorded when it
\* lasts MIN_SESSION_SECONDS) and then opens a new session at the time of
\* the event, so that the open session's time is never dropped.
C7_CloseBeforeOpen ==
    [][ ( /\ lastOp'.op \in {"focusGained", "editorChanged"}
          /\ lastOp'.doc # NoDoc
          /\ isTracking )
        => ( /\ IF OpenSession.durationSeconds >= MIN_SESSION_SECONDS
                THEN RecordedBy(globalState, globalState', OpenSession)
                ELSE globalState' = globalState
             /\ OpensAt(lastOp'.doc, now) ) ]_vars

\* C8: a focus loss or a change to no editor closes the open session, with
\* its last activity as its end, and leaves the machine Idle; when the
\* machine is Idle already it changes nothing.
C8_FocusLostCloses ==
    [][ ( \/ lastOp'.op = "focusLost"
          \/ (lastOp'.op = "editorChanged" /\ lastOp'.doc = NoDoc) )
        => IF isTracking
           THEN CloseEffect /\ ~isTracking'
           ELSE NoEffect ]_vars

C8_Witness ==
    /\ lastOp.op \in {"focusLost", "editorChanged"}
    /\ ~isTracking
    /\ Len(closed) = 1
    /\ closed[1].saved
    /\ closed[1].session.endTime < now

\* C9: a ping on another document (another language or another file) while
\* Tracking closes the open session with its last activity, not the ping's
\* time, as its end, and opens a session that starts at the ping's time;
\* every such ping does so.
C9_SwitchClosesThenOpens ==
    [][ ( /\ lastOp'.op = "ping"
          /\ isTracking
          /\ \/ lastOp'.doc.languageId # currentLanguage
             \/ lastOp'.doc.fileName # currentFileName )
        => CloseEffect /\ OpensAt(lastOp'.doc, now) ]_vars

C9_Witness ==
    /\ lastOp.op = "ping"
    /\ Len(closed) = 1
    /\ closed[1].saved
    /\ closed[1].session.languageId = currentLanguage
    /\ closed[1].session.fileName # currentFileName
    /\ closed[1].session.endTime < now
    /\ sessionStartTime = now

\* The seconds that the sessions closed by a step add to a day.
RECURSIVE ClosedSeconds(_, _)
ClosedSeconds(cl, dateKey) ==
    IF cl = <<>> THEN 0
    ELSE (IF /\ getDateKey(Head(cl).session.startTime) = dateKey
             /\ Head(cl).session.durationSeconds >= MIN_SESSION_SECONDS
          THEN Head(cl).session.durationSeconds ELSE 0)
         + ClosedSeconds(Tail(cl), dateKey)

\* C10: no increment is lost: whatever handler closes a session (heartbeat,
\* ping, ...) and in whatever order the handlers run, a day's stored
\* totalSeconds after the handler is its total before plus the durations of
\* the sessions the handler recorded for that day.
C10_NoLostIncrement ==
    [][ lastOp'.op \notin {"tick", "walkAway", "clearAll", "clearDay"} =>
          \A d \in DateKeys :
              StoredTotal(globalState', d)
                = StoredTotal(globalState, d) + ClosedSeconds(closed', d) ]_vars

C10_Witness ==
    /\ lastOp.op = "heartbeat"
    /\ Len(closed) = 1
    /\ closed[1].saved
    /\ LET d == getDateKey(closed[1].session.startTime) IN
         /\ Len(globalState[d].sessions) = 2
         /\ globalState[d].sessions[2] = closed[1].session
         /\ globalState[d].sessions[1].endTime = closed[1].session.startTime
         /\ globalState[d].totalSeconds =
              globalState[d].sessions[1].durationSeconds
                + closed[1].session.durationSeconds

----------------------------------------------------------------------------
(* Vocabulary of the reads *)

\* The aggregate stored for the day of the clock, or the empty one.
TodayStored == getDailyStats(globalState, getDateKey(now))

LangSeconds(stats, lang) ==
    IF lang \in DOMAIN stats.languageStats THEN stats.languageStats[lang] ELSE 0

Languages == {doc.languageId : doc \in Docs}

\* ret is today's stored aggregate with extra seconds more in the total and
\* in the entry of the current language, and nothing else changed.
SnapshotAdds(ret, extra) ==
    /\ ret.date = TodayStored.date
    /\ ret.sessions = TodayStored.sessions
    /\ ret.totalSeconds = TodayStored.totalSeconds + extra
    /\ DOMAIN ret.languageStats \subseteq Languages
    /\ \A lang \in Languages :
          LangSeconds(ret, lang) =
             LangSeconds(TodayStored, lang)
               + (IF lang = currentLanguage THEN extra ELSE 0)

\* What a getTodayStats step returns when the provisional duration of the
\* open session is taken to be provisional seconds.
SnapshotRule(provisional) ==
    lastOp'.op = "getTodayStats" =>
        IF isTracking /\ provisional >= MIN_SESSION_SECONDS
        THEN SnapshotAdds(returned', provisional)
        ELSE returned' = TodayStored

\* C11 as stated: while Tracking the snapshot adds the time from the start of
\* the session to the moment of the read.
C11_Original ==
    [][SnapshotRule(Floor(now - sessionStartTime))]_vars

\* C11: getTodayStats returns the aggregate stored for today's key; while
\* Tracking it adds, in the returned value, the provisional duration
\* floor((lastActivityTime - sessionStartTime) / 1000) to totalSeconds and to
\* the seconds of the current language when that duration is at least
\* MIN_SESSION_SECONDS; when Idle, or when the duration is shorter, it
\* returns the stored values unchanged.
C11_SnapshotAddsOpenSession ==
    [][SnapshotRule(Floor(lastActivityTime - sessionStartTime))]_vars

\* A snapshot read some time after the last activity of an open session that
\* is long enough.
C11_Witness ==
    /\ lastOp.op = "getTodayStats"
    /\ isTracking
    /\ now > lastActivityTime
    /\ Floor(lastActivityTime - sessionStartTime) >= MIN_SESSION_SECONDS
    /\ returned.totalSeconds =
          TodayStored.totalSeconds + Floor(lastActivityTime - sessionStartTime)

\* C12: a getTodayStats call writes nothing: the store, the tracking flag,
\* the current language and file, the session start and the last activity
\* time are after the call what they were before it, and no session is
\* closed and no notification fired; the provisional duration is only in the
\* returned value.
C12_SnapshotWritesNothing ==
    [][lastOp'.op = "getTodayStats" =>
          /\ UNCHANGED <<tracker, globalState>>
          /\ fired' = <<>>
          /\ closed' = <<>>]_vars

\* A snapshot that shows more than the store holds for a day that is stored.
C12_Witness ==
    /\ lastOp.op = "getTodayStats"
    /\ isTracking
    /\ getDateKey(now) \in DOMAIN globalState
    /\ returned.totalSeconds > globalState[getDateKey(now)].totalSeconds

\* C13: the aggregates returned by getDailyStats and getTodayStats are
\* independent of the store: a caller that mutates a returned aggregate, its
\* languageStats, its sessions or a session in it changes nothing of what the
\* store holds.
C13_ReturnedValuesIndependent ==
    [][lastOp'.op = "mutate" => globalState' = globalState]_vars

\* C14: getDailyStats is idempotent: a call for a day returns the value that
\* the earlier call for that day returned when no session was recorded and
\* nothing was cleared between the two, whatever else happened between them
\* (pings, closes that discard, heartbeats, snapshots, reads of other days),
\* and whether or not the day is stored.
C14_ReadsAgree ==
    [][lastOp'.op = "getDailyStats" /\ lastOp'.dateKey \in DOMAIN reads
          => returned' = reads[lastOp'.dateKey]]_vars

\* A day that is stored is read a second time while a session is open.
C14_Witness ==
    /\ lastOp.op = "getDailyStats"
    /\ lastOp.again
    /\ lastOp.dateKey \in DOMAIN globalState
    /\ isTracking
    /\ lastActivityTime > sessionStartTime

\* The day d is after the step what it was before it, stored or not.
DayUntouched(d) ==
    /\ (d \in DOMAIN globalState') = (d \in DOMAIN globalState)
    /\ d \in DOMAIN globalState => globalState'[d] = globalState[d]

\* C15: a recorded session counts with its whole duration for the UTC day of
\* its start time: the total of that day grows by the session's duration,
\* also when the session ends on a later day, and no other day is changed or
\* created.
C15_WholeDurationToStartDay ==
    [][HandlerStep =>
        \A i \in 1..Len(closed') :
           closed'[i].saved =>
              LET ses      == closed'[i].session
                  startDay == getDateKey(ses.startTime)
              IN  /\ ses.durationSeconds = Floor(ses.endTime - ses.startTime)
                  /\ StoredTotal(globalState', startDay)
                        = StoredTotal(globalState, startDay) + ses.durationSeconds
                  /\ LangSeconds(getDailyStats(globalState', startDay), ses.languageId)
                        = LangSeconds(getDailyStats(globalState, startDay), ses.languageId)
                             + ses.durationSeconds
                  /\ \A d \in (DOMAIN globalState \cup DOMAIN globalState'
                                  \cup DateKeys) \ {startDay} : DayUntouched(d)]_vars

\* A session that started before midnight and ended after it was recorded,
\* and the day on which it ended has no aggregate.
C15_Witness ==
    /\ closed # <<>>
    /\ closed[1].saved
    /\ getDateKey(closed[1].session.startTime) < getDateKey(closed[1].session.endTime)
    /\ getDateKey(closed[1].session.startTime) \in DOMAIN globalState
    /\ getDateKey(closed[1].session.endTime) \notin DOMAIN globalState

\* The sessions that the step recorded, in the order of their recording.
SavedBy(cl) == SelectSeq(cl, LAMBDA c : c.saved)

\* C16: a step fires one 'stats updated' notification for each session it
\* records, and it records at most one; the notification carries the
\* aggregate of the session's day as the store holds it after the write, the
\* session being the last of its sessions.  A close that discards the session
\* and every other step, handler or not, fires nothing.
C16_NotifiedOncePerRecord ==
    [][LET saved == SavedBy(closed') IN
       /\ Len(saved) <= 1
       /\ Len(fired') = Len(saved)
       /\ \A i \in 1..Len(saved) :
             LET ses == saved[i].session
                 day == getDateKey(ses.startTime)
             IN  /\ day \in DOMAIN globalState'
                 /\ fired'[i] = globalState'[day]
                 /\ fired'[i].sessions # <<>>
                 /\ fired'[i].sessions[Len(fired'[i].sessions)] = ses]_vars

\* A session was recorded on a day that already had one, and the
\* notification carries both.
C16_Witness ==
    /\ Len(fired) = 1
    /\ Len(fired[1].sessions) = 2
    /\ closed # <<>>
    /\ closed[1].saved
    /\ fired[1].totalSeconds =
          fired[1].sessions[1].durationSeconds + closed[1].session.durationSeconds

----------------------------------------------------------------------------
(* Vocabulary of the commit-log properties *)

Queried == gitOut # NoOutput

\* The positions in the log of the commits of an author on a local day.
CommitsOn(author, day) ==
    {i \in 1..Len(gitLog) :
        /\ gitLog[i].author_name = author
        /\ toLocaleDateString(DateParse(gitLog[i].date), gitTz) = day}

DatesOn(author, day) == {DateParse(gitLog[i].date) : i \in CommitsOn(author, day)}

\* The local days on which the author has a commit in the log.
DaysOf(author) ==
    {toLocaleDateString(DateParse(gitLog[i].date), gitTz) :
        i \in {j \in 1..Len(gitLog) : gitLog[j].author_name = author}}

Earliest(dates) == CHOOSE d \in dates : \A e \in dates : d <= e

Latest(dates) == CHOOSE d \in dates : \A e \in dates : d >= e

\* h is the number n / d.
IsHours(h, n, d) == h.num * d = n * h.den

Range(seq) == {seq[i] : i \in 1..Len(seq)}

\* C17: in the result of every query, each author's entry for a day has
\* hours = (latest commit of the day - earliest commit of the day) in hours,
\* whatever the order of the commits in the log; a day with a single commit
\* has hours 0, and two commits 90 minutes apart give hours 1.5.
C17_HoursFromEarliestToLatest ==
    Queried =>
      \A r \in Range(gitOut.records) :
        \A dw \in Range(r.dailyWork) :
           LET dates == DatesOn(r.author, dw.day) IN
           /\ dates # {}
           /\ dw.hours = Hours(Latest(dates) - Earliest(dates))
           /\ Cardinality(CommitsOn(r.author, dw.day)) = 1 => IsHours(dw.hours, 0, 1)
           /\ Latest(dates) - Earliest(dates) = 90 * MsPerMinute
                 => IsHours(dw.hours, 3, 2)

\* The log has the later of two commits of a day first, 90 minutes after
\* the other, and the day's hours are 1.5.
C17_Witness ==
    /\ Queried
    /\ Len(gitLog) >= 2
    /\ gitLog[1].author_name = gitLog[2].author_name
    /\ DateParse(gitLog[1].date) = DateParse(gitLog[2].date) + 90 * MsPerMinute
    /\ \E r \in Range(gitOut.records) :
          /\ r.author = gitLog[1].author_name
          /\ \E dw \in Range(r.dailyWork) :
                /\ Len(dw.commits) = 2
                /\ IsHours(dw.hours, 3, 2)

\* The sum, over the given days, of the time from the author's earliest to
\* the author's latest commit of the day, in milliseconds.
RECURSIVE SumSpans(_, _)
SumSpans(author, days) ==
    IF days = {} THEN 0
    ELSE LET day   == CHOOSE d \in days : TRUE
             dates == DatesOn(author, day)
         IN  (Latest(dates) - Earliest(dates)) + SumSpans(author, days \ {day})

\* C18: an author's commits on different local calendar days give one
\* dailyWork entry for each of the days; an entry holds the commits of its
\* day and no others, its hours run from its own first to its own last
\* commit, so that the time between the days is never counted, and the
\* author's totalHours is the sum of the hours of the days.
C18_DaysKeptApart ==
    Queried =>
      \A r \in Range(gitOut.records) :
        /\ Len(r.dailyWork) = Cardinality(DaysOf(r.author))
        /\ {dw.day : dw \in Range(r.dailyWork)} = DaysOf(r.author)
        /\ \A dw \in Range(r.dailyWork) :
              /\ {c.hash : c \in Range(dw.commits)} = CommitsOn(r.author, dw.day)
              /\ Len(dw.commits) = Cardinality(CommitsOn(r.author, dw.day))
              /\ toLocaleDateString(dw.firstCommit, gitTz) = dw.day
              /\ toLocaleDateString(dw.lastCommit, gitTz) = dw.day
              /\ dw.hours = Hours(dw.lastCommit - dw.firstCommit)
        /\ r.totalHours = Hours(SumSpans(r.author, DaysOf(r.author)))

\* An author has two commits 90 minutes apart on one day and a third on the
\* next day: two entries, and a total of 1.5 hours.
C18_Witness ==
    /\ Queried
    /\ \E r \in Range(gitOut.records) :
          /\ Len(r.dailyWork) = 2
          /\ r.commits = 3
          /\ IsHours(r.totalHours, 3, 2)
          /\ r.commitDetails[3].date - r.commitDetails[1].date > 90 * MsPerMinute

\* C19: in the result of every code path that aggregates (report panel, CSV
\* export and upload), whatever the order of the log, each author's
\* dailyWork entries are in ascending order of firstCommit and the commits
\* of each entry are in chronological order.
C19_Chronological ==
    Queried =>
      \A r \in Range(gitOut.records) :
        /\ \A i, j \in 1..Len(r.dailyWork) :
              i < j => r.dailyWork[i].firstCommit < r.dailyWork[j].firstCommit
        /\ \A dw \in Range(r.dailyWork) :
              \A i, j \in 1..Len(dw.commits) :
                 i < j => dw.commits[i].date <= dw.commits[j].date

\* The upload, which does not sort dailyWork, of a log that has an author's
\* commits latest first, on two days, two of them on one day.
C19_Witness ==
    /\ Queried
    /\ gitOut.path = "upload"
    /\ Len(gitLog) = 3
    /\ \A i \in 1..3 : gitLog[i].author_name = gitLog[1].author_name
    /\ DateParse(gitLog[1].date) > DateParse(gitLog[2].date)
    /\ DateParse(gitLog[2].date) > DateParse(gitLog[3].date)
    /\ Len(gitOut.records) = 1
    /\ Len(gitOut.records[1].dailyWork) = 2
    /\ gitOut.records[1].dailyWork[1].commits[1].hash = 3

\* The log without its records that lack an author.
WellFormed(log) == SelectSeq(log, LAMBDA c : c.author_name # NoAuthor)

\* C20: a commit record without an author is skipped: the result of a query
\* is what it would be if the record were not in the log, so the record is
\* in no author's commits and counts for no day and no hours.
C20_MalformedSkipped ==
    Queried =>
      gitOut.records = WorkRecords(WellFormed(gitLog), gitTz, gitOut.path # "upload")

----------------------------------------------------------------------------
(* Vocabulary of the share and format properties *)

Computed(op) == result # NoValue /\ result.op = op

\* The languages of the aggregate that have more than 0 seconds.
PositiveLanguages(stats) ==
    {stats.languageStats[i][1] :
        i \in {j \in 1..Len(stats.languageStats) : stats.languageStats[j][2] > 0}}

SecondsOf(stats, language) ==
    LET i == CHOOSE j \in 1..Len(stats.languageStats) :
                stats.languageStats[j][1] = language
    IN  stats.languageStats[i][2]

\* C21: getLanguagePercentages returns the empty sequence when totalSeconds
\* is 0; otherwise it returns exactly one entry for each language that has
\* more than 0 seconds, and none for a language with 0 seconds, each with
\* percentage = 100 * seconds / totalSeconds; for {go: 120, rust: 0} that is
\* one entry, go at 100.
C21_PositiveSharesOnly ==
    Computed("shares") =>
       IF arg.totalSeconds = 0 THEN result.value = <<>>
       ELSE /\ Len(result.value) = Cardinality(PositiveLanguages(arg))
            /\ {e.language : e \in Range(result.value)} = PositiveLanguages(arg)
            /\ \A e \in Range(result.value) :
                  /\ e.seconds = SecondsOf(arg, e.language)
                  /\ e.percentage.num * arg.totalSeconds
                        = 100 * e.seconds * e.percentage.den

\* The place of a language identifier in the ascending order of the texts.
Rank(language) == CHOOSE i \in 1..Len(LanguageOrder) : LanguageOrder[i] = language

\* C22: the entries returned by getLanguagePercentages are in descending
\* order of seconds, and entries with equal seconds are in ascending order of
\* the language identifier, whatever the order in which the languages were
\* added to the aggregate.
C22_SortedWithTieBreak ==
    Computed("shares") =>
       \A i, j \in 1..Len(result.value) :
          i < j =>
             \/ result.value[i].seconds > result.value[j].seconds
             \/ /\ result.value[i].seconds = result.value[j].seconds
                /\ Rank(result.value[i].language) < Rank(result.value[j].language)

\* The number that a sequence of decimal digits denotes.
RECURSIVE NumberOf(_)
NumberOf(text) ==
    IF text = <<>> THEN 0
    ELSE 10 * NumberOf(SubSeq(text, 1, Len(text) - 1)) + (text[Len(text)] - 48)

\* text is the decimal numeral of n, without leading zeros.
Shows(text, n) ==
    /\ text # <<>>
    /\ \A i \in 1..Len(text) : text[i] \in 48..57
    /\ Len(text) > 1 => text[1] # 48
    /\ NumberOf(text) = n

\* text is the numeral of n followed by unit.
OnePart(text, n, unit) ==
    /\ Len(text) > Len(unit)
    /\ SubSeq(text, Len(text) - Len(unit) + 1, Len(text)) = unit
    /\ Shows(SubSeq(text, 1, Len(text) - Len(unit)), n)

\* text is the numeral of n1, unit1, the numeral of n2, unit2.
TwoParts(text, n1, unit1, n2, unit2) ==
    \E k \in 1..Len(text) :
       /\ OnePart(SubSeq(text, 1, k), n1, unit1)
       /\ OnePart(SubSeq(text, k + 1, Len(text)), n2, unit2)

\* The rule of formatDuration with the given unit texts.
FormatRule(hourUnit, minuteUnit, secondUnit) ==
    Computed("format") =>
       LET H == arg \div 3600
           M == (arg - 3600 * H) \div 60
           S == arg - 60 * (arg \div 60)
       IN  IF arg < 60 THEN OnePart(result.value, arg, secondUnit)
           ELSE IF arg < 3600
                THEN TwoParts(result.value, arg \div 60, minuteUnit, S, secondUnit)
                ELSE TwoParts(result.value, H, hourUnit, M, minuteUnit)

\* C23 as stated: the units are written h, m and s, so that 45 gives "45s",
\* 125 gives "2m5s" and 3661 gives "1h1m".
C23_Original == FormatRule(<<104>>, <<109>>, <<115>>)

\* C23: formatDuration shows only the seconds below 60, the minutes
\* floor(seconds / 60) and the seconds seconds mod 60 from 60 to 3599, and the
\* hours and the minutes, the seconds dropped, from 3600 on; the units are
\* the texts U+79D2, U+5206 U+949F and U+5C0F U+65F6.  45 gives 45 U+79D2,
\* 125 gives 2 U+5206 U+949F 5 U+79D2, 3661 gives 1 U+5C0F U+65F6 1 U+5206
\* U+949F.
C23_FormatDuration ==
    /\ FormatRule(<<23567, 26102>>, <<20998, 38047>>, <<31186>>)
    /\ Computed("format") /\ arg = 45 => result.value = <<52, 53, 31186>>
    /\ Computed("format") /\ arg = 125
          => result.value = <<50, 20998, 38047, 53, 31186>>
    /\ Computed("format") /\ arg = 3661
          => result.value = <<49, 23567, 26102, 49, 20998, 38047>>

\* 3661 seconds were formatted: one hour, one minute, the second dropped.
C23_Witness ==
    /\ Computed("format")
    /\ arg = 3661
    /\ Len(result.value) = 6

\* ----- a store that throws --------------------------------------------------

\* The step is a handler whose flush of the open session threw.
FlushThrew(op) == threw /\ lastOp.op = op

\* C24: once dispose() has returned or thrown, the heartbeat timer is
\* cancelled and no heartbeat tick is processed any more, also when the flush
\* of the open session inside dispose() failed.
C24_HeartbeatCancelledOnEveryPath ==
    [][/\ lifecycle' = "disposed" => ~heartbeatTimer'
       /\ lifecycle = "disposed" => lastOp'.op # "heartbeat"]_vars

\* C25: a store failure while a session is flushed leaves the state machine
\* unaffected: the transition that triggered the flush still completes, to
\* Idle for a focus loss, a heartbeat timeout and dispose, to the newly opened
\* session for a ping.
C25_TransitionCompletesOnFailure ==
    /\ FlushThrew("focusLost") \/ FlushThrew("heartbeat") \/ FlushThrew("dispose")
          => ~isTracking
    /\ FlushThrew("ping")
          => /\ isTracking
             /\ sessionStartTime = now
             /\ lastActivityTime = now
             /\ currentLanguage = lastOp.doc.languageId
             /\ currentFileName = lastOp.doc.fileName

\* ----- the stored days ------------------------------------------------------

StartDays(sessions) ==
    {getDateKey(sessions[i].startTime) : i \in 1..Len(sessions)}

\* The step recorded a session that started on day d.
RecordsInto(d) ==
    \E i \in 1..Len(closed') :
       /\ closed'[i].saved
       /\ getDateKey(closed'[i].session.startTime) = d

\* C26: the stored days are the start days of the recorded sessions: every
\* stored aggregate holds at least one session, all its sessions started on
\* its day, and its totalSeconds is at least MIN_SESSION_SECONDS; a day
\* becomes stored only by a step that records a session that started on it
\* (not by getDailyStats, getTodayStats or a discarded session), and a stored
\* day changes only by a step that records a session that started on it.
C26_StoredDaysAreRecordedDays ==
    [][ /\ \A d \in DOMAIN globalState' :
              /\ globalState'[d].sessions # <<>>
              /\ StartDays(globalState'[d].sessions) = {d}
              /\ globalState'[d].totalSeconds >= MIN_SESSION_SECONDS
        /\ \A d \in DOMAIN globalState' \ DOMAIN globalState : RecordsInto(d)
        /\ \A d \in DOMAIN globalState \cap DOMAIN globalState' :
              globalState'[d] # globalState[d] => RecordsInto(d) ]_vars

\* A day that is not stored was read while another day is stored, and the day
\* read is still not stored.
C26_Witness ==
    /\ lastOp.op = "getDailyStats"
    /\ lastOp.dateKey \notin DOMAIN globalState
    /\ globalState # << >>
    /\ returned.totalSeconds = 0

\* C27: clearAllStats() removes every stored day: right after it no day is
\* stored and getDailyStats gives the empty aggregate for every day;
\* clearDailyStats(d) removes day d and leaves every other day as it was; no
\* other step removes a stored day.
C27_ClearsRemoveExactly ==
    [][ /\ lastOp'.op = "clearAll" =>
              /\ getAllStoredDates(globalState') = {}
              /\ \A d \in DateKeys :
                    LET stats == getDailyStats(globalState', d) IN
                    /\ stats.totalSeconds = 0
                    /\ DOMAIN stats.languageStats = {}
                    /\ stats.sessions = <<>>
        /\ lastOp'.op = "clearDay" =>
              /\ lastOp'.dateKey \notin DOMAIN globalState'
              /\ \A d \in DateKeys \ {lastOp'.dateKey} : DayUntouched(d)
        /\ lastOp'.op \notin {"clearAll", "clearDay"} =>
              DOMAIN globalState \subseteq DOMAIN globalState' ]_vars

\* A stored day was cleared and another day is still stored.
C27_Witness ==
    /\ lastOp.op = "clearDay"
    /\ lastOp.stored
    /\ lastOp.dateKey \notin DOMAIN globalState
    /\ globalState # << >>

\* ----- pings within the open session ----------------------------------------

\* The step is a ping on the document of the open session, at most
\* IDLE_TIMEOUT_MS after its last activity.
PingWithinSession ==
    /\ lastOp'.op = "ping"
    /\ isTracking
    /\ lastOp'.doc.languageId = currentLanguage
    /\ lastOp'.doc.fileName = currentFileName
    /\ now - lastActivityTime <= IDLE_TIMEOUT_MS

\* C28: a ping while Tracking, on the same document and at most
\* IDLE_TIMEOUT_MS after the last activity (0 and exactly IDLE_TIMEOUT_MS
\* included), only sets lastActivityTime to the ping's time: the session's
\* start and document stay, the machine stays Tracking, no session is closed,
\* the store is unchanged and nothing is fired.
C28_PingExtendsOnly ==
    [][ PingWithinSession =>
          /\ lastActivityTime' = now
          /\ UNCHANGED <<isTracking, currentLanguage, currentFileName,
                         sessionStartTime, globalState>>
          /\ closed' = <<>>
          /\ fired' = <<>> ]_vars

\* A ping exactly IDLE_TIMEOUT_MS after the last activity extended the open
\* session.
C28_Witness ==
    /\ lastOp.op = "ping"
    /\ lastOp.timeSinceLastActivity = IDLE_TIMEOUT_MS
    /\ isTracking
    /\ sessionStartTime < now - IDLE_TIMEOUT_MS
    /\ lastActivityTime = now
    /\ closed = <<>>

\* ----- every session once ----------------------------------------------------

\* The places of the store: a day and an index into its sessions.
Entries(gs) ==
    UNION {{<<d, i>> : i \in 1..Len(gs[d].sessions)} : d \in DOMAIN gs}

EntryAt(gs, e) == gs[e[1]].sessions[e[2]]

\* C29: an opened session is recorded at most once, whatever pings, focus
\* and editor changes, heartbeats and dispose follow: a step records at most
\* one session, and that is the session that was open; after a close the
\* machine is Idle or in a session opened by the same step; no two entries
\* of the store are the same session, and the session that is open is not in
\* the store.
C29_RecordedAtMostOnce ==
    [][ /\ Len(closed') <= 1
        /\ closed' # <<>> =>
              /\ isTracking
              /\ closed'[1].session = OpenSession
              /\ isTracking' => sessionStartTime' = now /\ lastActivityTime' = now
        /\ \A e1, e2 \in Entries(globalState') :
              e1 # e2 =>
                 EntryAt(globalState', e1).startTime
                    # EntryAt(globalState', e2).startTime
        /\ isTracking' =>
              \A e \in Entries(globalState') :
                 EntryAt(globalState', e).startTime # sessionStartTime' ]_vars

\* The heartbeat fired after the idle timeout of a session that a handler had
\* closed and recorded before: it recorded nothing.
C29_Witness ==
    /\ lastOp.op = "heartbeat"
    /\ ~isTracking
    /\ now - lastActivityTime > IDLE_TIMEOUT_MS
    /\ closed = <<>>
    /\ \E e \in Entries(globalState) :
          EntryAt(globalState, e).endTime = lastActivityTime

\* ----- the recorded sessions in time ----------------------------------------

\* The session is well formed: it does not end before it starts, its duration
\* is the whole seconds between its start and its end, and that is at least
\* MIN_SESSION_SECONDS.
WellTimed(ses) ==
    /\ ses.startTime <= ses.endTime
    /\ ses.durationSeconds = Floor(ses.endTime - ses.startTime)
    /\ ses.durationSeconds >= MIN_SESSION_SECONDS

\* C30: with a clock that never goes back, every recorded session has
\* startTime <= endTime and durationSeconds = floor((endTime - startTime) /
\* 1000) >= MIN_SESSION_SECONDS, and recorded sessions do not overlap: a
\* session is appended to the sessions of its day, it starts no earlier than
\* any session in the store ends, and the sessions of a day are in the order
\* of their times.
C30_SessionsOrderedInTime ==
    [][ /\ \A e \in Entries(globalState') : WellTimed(EntryAt(globalState', e))
        /\ \A i \in 1..Len(closed') :
              closed'[i].saved =>
                 /\ RecordedBy(globalState, globalState', closed'[i].session)
                 /\ \A e \in Entries(globalState) :
                       EntryAt(globalState, e).endTime
                          <= closed'[i].session.startTime
        /\ \A d \in DOMAIN globalState' :
              \A i, j \in 1..Len(globalState'[d].sessions) :
                 i < j => globalState'[d].sessions[i].endTime
                             <= globalState'[d].sessions[j].startTime ]_vars

\* A session was recorded that starts later than a session of the store
\* ends, on a later day.
C30_Witness ==
    /\ Len(closed) = 1
    /\ closed[1].saved
    /\ \E e \in Entries(globalState) :
          /\ EntryAt(globalState, e).endTime < closed[1].session.startTime
          /\ e[1] # getDateKey(closed[1].session.startTime)

\* ----- sessions without pings ------------------------------------------------

\* C31: a session that got no ping after it was opened has duration 0 and is
\* never recorded: only a ping moves the last activity of an open session
\* away from its start (every other step leaves start and last activity of
\* the open session alone or opens a session with both at the current time),
\* and a close of a session whose last activity is its start records nothing
\* and fires nothing, however long ago the session was opened.
C31_UnextendedSessionNeverRecorded ==
    [][ /\ (lastOp'.op # "ping" /\ isTracking') =>
              \/ /\ isTracking
                 /\ UNCHANGED <<sessionStartTime, lastActivityTime>>
              \/ /\ sessionStartTime' = now
                 /\ lastActivityTime' = now
        /\ (lastOp'.op = "ping" /\ ~isTracking) =>
              sessionStartTime' = now /\ lastActivityTime' = now
        /\ (closed' # <<>> /\ lastActivityTime = sessionStartTime) =>
              /\ closed'[1].session.durationSeconds = 0
              /\ ~closed'[1].saved
              /\ globalState' = globalState
              /\ fired' = <<>> ]_vars

\* A session without a ping was closed by a focus loss or a change to no
\* editor at least MIN_SESSION_SECONDS after it was opened, and was discarded.
C31_Witness ==
    /\ lastOp.op \in {"focusLost", "editorChanged"}
    /\ ~isTracking
    /\ Len(closed) = 1
    /\ closed[1].session.startTime = closed[1].session.endTime
    /\ now - closed[1].session.startTime >= MIN_SESSION_SECONDS * MsPerSecond
    /\ ~closed[1].saved

\* ----- the snapshot and the close --------------------------------------------

\* What getTodayStats returns when it is called in the current state.
Snapshot == getTodayStats(Cur, now).returned

C33_SnapshotNeverDecreases ==
    [][ ( /\ lastOp'.op \notin {"clearAll", "clearDay"}
          /\ getDateKey(now') = getDateKey(now) )
        => Snapshot'.totalSeconds >= Snapshot.totalSeconds ]_vars

\* C34: dispose() flushes the open session before it stops: a dispose while
\* Tracking a session of at least MIN_SESSION_SECONDS whole seconds records
\* that session, with the last activity as its end, and leaves the tracker
\* Idle with the heartbeat stopped; a shorter session is discarded and the
\* tracker is Idle as well; a dispose while Idle leaves the store as it was.
C34_DisposeFlushes ==
    [][ lastOp'.op = "dispose" =>
          /\ ~isTracking'
          /\ ~heartbeatTimer'
          /\ IF isTracking
             THEN /\ CloseEffect
                  /\ closed'[1].session.endTime = lastActivityTime
             ELSE /\ globalState' = globalState
                  /\ closed' = <<>>
                  /\ fired' = <<>> ]_vars

\* dispose() recorded the open session, which ends at its last activity,
\* some time before the dispose.
C34_Witness ==
    /\ lastOp.op = "dispose"
    /\ lifecycle = "disposed"
    /\ ~isTracking
    /\ ~heartbeatTimer
    /\ Len(closed) = 1
    /\ closed[1].saved
    /\ closed[1].session.endTime < now
    /\ InSeq(closed[1].session,
             StoredSessions(globalState, getDateKey(closed[1].session.startTime)))

====
